---- MODULE Spec2Model ----
(***************************************************************************)
(* Model of the portfolio application (src/src/app.rs, src/src/data.rs,    *)
(* src/src/elements.rs): one frame of TemplateApp::update is one step.     *)
(*                                                                         *)
(* Numbers.  The program computes with f32.  The model computes with exact *)
(* rationals, records [n, d] in lowest terms with d > 0.  Time is counted  *)
(* in ticks of 0.05 time units, so the animation time 0.2 is 4 ticks.      *)
(***************************************************************************)
EXTENDS Integers, Sequences, FiniteSets, TLC

(***************************************************************************)
(* Bounds of the model.                                                    *)
(***************************************************************************)
MaxFrames == 3
FrameDt == 2
MaxProjects == 1
MaxShift == 2
MaxEntries == 2
MaxOpened == 2
MaxCalls == 3

Widths == {500, 767, 768, 1027, 1028}
Handles == {"h1", "h2"}
RootUrls == {"", "https://zerouni.dev/"}
Pointers == {"away", "portfolio", "theme_click"}
SceneSizes == {1, 3}

(***************************************************************************)
(* Program constants.                                                      *)
(***************************************************************************)
SmallLimit == 768
MediumLimit == 1028
AnimationTime == 4

None == "None"
PortfolioId == "portfolio_button"

(***************************************************************************)
(* Exact rational arithmetic standing for f32.                             *)
(***************************************************************************)
Abs(x) == IF x < 0 THEN -x ELSE x

RECURSIVE Gcd(_, _)
Gcd(a, b) == IF b = 0 THEN a ELSE Gcd(b, a % b)

Rat(n, d) ==
    LET g == Gcd(Abs(n), Abs(d))
        s == IF d < 0 THEN -1 ELSE 1
    IN  [n |-> (s * n) \div g, d |-> (s * d) \div g]

RInt(i) == [n |-> i, d |-> 1]
RAdd(a, b) == Rat(a.n * b.d + b.n * a.d, a.d * b.d)
RSub(a, b) == Rat(a.n * b.d - b.n * a.d, a.d * b.d)
RMul(a, b) == Rat(a.n * b.n, a.d * b.d)
RDiv(a, b) == Rat(a.n * b.d, a.d * b.n)
RLt(a, b) == a.n * b.d < b.n * a.d
RLe(a, b) == a.n * b.d <= b.n * a.d

InitZooms == {Rat(1, 2), RInt(1), Rat(3, 2)}

VARIABLES
    viewport,           \* host: physical width of the window, 0 before the first frame
    zoom_factor,        \* host: ctx.zoom_factor()
    theme,              \* host: ctx.theme()
    anim_values,        \* host: the animation manager's values, by id
    screen_width,       \* update(): screen_width of the last frame
    screen_size,        \* update(): screen_size of the last frame
    panel_location,     \* update(): panel_location of the last frame
    zoom_repaint,       \* update(): the zoom step of the last frame called request_repaint
    image_path,         \* TemplateApp.image_path
    animations,         \* TemplateApp.animations
    root_url,           \* TemplateApp.root_url
    data,               \* TemplateApp.data.project_highlights
    raw_data,           \* data.rs RAW_DATA, the configuration built into the binary
    startup,            \* how far construction got: constructing, running or aborted
    scene_rect,         \* TemplateApp.scene_rect
    storage,            \* host: what is stored under eframe::APP_KEY, <<>> if nothing
    restored,           \* history: this session started from a stored snapshot
    socials_call,       \* history: the link and the click of the last socials(), if any
    opened,             \* host: the window.open requests so far, in order
    button,             \* the ButtonWithUnderline under construction
    calls,              \* history: the builder calls made on it, in order
    painted,            \* what atom_ui painted for it, <<>> before it is shown
    gradient_call,      \* history: the arguments of the last paint_angular_gradient
    mesh,               \* host: the vertex colors of the mesh it added to the painter
    scene_rect_snapshot,\* update(): the copy of scene_rect the last frame took
    poll_result,        \* last frame: what try_load_texture answered, per project
    thumb_result,       \* last frame: what get_set_thumbnail returned, per project
    load_requests,      \* last frame: the URIs passed to try_load_texture, in order
    same_width_frames,  \* history: consecutive frames at the current viewport, up to 2
    hover_time,         \* history: ticks covered by the current run of hovered frames, -1 if none
    pointer_at,         \* history: where the pointer was in the last frame
    highlights,         \* last frame: what the highlights loop added to the ui, in order
    frame_result,       \* last frame: none before the first, then ok or panic
    frames              \* history: number of frames so far

vars == <<viewport, zoom_factor, theme, anim_values, screen_width, screen_size,
          panel_location, zoom_repaint, animations, root_url, data, raw_data, startup,
          scene_rect, image_path, storage, restored, socials_call, opened,
          button, calls, painted, gradient_call, mesh,
          scene_rect_snapshot, poll_result, thumb_result, load_requests,
          same_width_frames, hover_time, pointer_at, highlights, frame_result,
                   frames>>

\* The host's state, and what update() recorded of the last frame.
host_vars == <<viewport, zoom_factor, theme, anim_values>>
link_vars == <<socials_call, opened>>
button_vars == <<button, calls, painted>>
gradient_vars == <<gradient_call, mesh>>
frame_vars == <<screen_width, screen_size, panel_location, zoom_repaint, poll_result,
                thumb_result, load_requests, same_width_frames, hover_time, pointer_at,
                highlights, frame_result>>

(***************************************************************************)
(* Size class and zoom step, app.rs 255-278.                               *)
(***************************************************************************)
\* ctx.screen_rect().width(): the host measures the window in points,
\* physical width / zoom factor.
ScreenRectWidth(vp, zoom) == RDiv(RInt(vp), zoom)

\* Mutant: the measured width is not multiplied by the zoom factor.
ScreenWidthUnzoomed(vp, zoom) == ScreenRectWidth(vp, zoom)

ScreenWidth(vp, zoom) == RMul(ScreenRectWidth(vp, zoom), zoom)

\* Mutant: the boundaries belong to the smaller class.
ClassifyInclusive(w) ==
    IF RLe(w, RInt(SmallLimit)) THEN "Small"
    ELSE IF RLe(w, RInt(MediumLimit)) THEN "Medium"
    ELSE "Large"

Classify(w) ==
    IF RLt(w, RInt(SmallLimit)) THEN "Small"
    ELSE IF RLt(w, RInt(MediumLimit)) THEN "Medium"
    ELSE "Large"

to_u8(size) == CASE size = "Small" -> 1 [] size = "Medium" -> 2 [] size = "Large" -> 3

\* Mutant: the zoom factor is not reset for Medium and Large.
ZoomStepNoReset(w, size, zoom) ==
    IF to_u8(size) = 1 /\ zoom # RDiv(w, RInt(SmallLimit))
    THEN [zoom |-> RDiv(w, RInt(SmallLimit)), repaint |-> TRUE]
    ELSE [zoom |-> zoom, repaint |-> FALSE]

\* The zoom factor after the frame and whether a repaint was requested.
ZoomStep(w, size, zoom) ==
    IF to_u8(size) = 1 /\ zoom # RDiv(w, RInt(SmallLimit))
    THEN [zoom |-> RDiv(w, RInt(SmallLimit)), repaint |-> TRUE]
    ELSE IF to_u8(size) # 1
    THEN [zoom |-> RInt(1), repaint |-> FALSE]
    ELSE [zoom |-> zoom, repaint |-> FALSE]

\* Mutant: Medium is placed like Small.
PanelLocationMediumBottom(size) ==
    CASE size = "Small" -> "Bottom"
      [] size = "Medium" -> "Bottom"
      [] size = "Large" -> "Top"

PanelLocation(size) ==
    CASE size = "Small" -> "Bottom"
      [] size = "Medium" -> "Top"
      [] size = "Large" -> "Top"

(***************************************************************************)
(* Theme toggle, app.rs 280-284 and 347-353.                               *)
(***************************************************************************)
ThemeText(t) == IF t = "Light" THEN "moon" ELSE "sun"

\* Mutant: the toggle always chooses the dark theme.
ToggleThemeAlwaysDark(t, clicked) ==
    IF clicked THEN "Dark" ELSE t

ToggleTheme(t, clicked) ==
    IF clicked THEN (IF t = "Light" THEN "Dark" ELSE "Light") ELSE t

(***************************************************************************)
(* The host's animation manager behind ctx.animate_value_with_time, whose  *)
(* value is linear in the time since the target last changed, half a frame *)
(* ahead, and clamped to the range between the old and the new target.     *)
(***************************************************************************)
\* emath::remap_clamp(x, lo..=hi, from..=to) for lo < hi.
RemapClamp(x, lo, hi, from, to) ==
    IF RLe(x, lo) THEN from
    ELSE IF RLe(hi, x) THEN to
    ELSE LET t == RDiv(RSub(x, lo), RSub(hi, lo))
         IN  IF RLe(RInt(1), t) THEN to
             ELSE RAdd(RMul(RSub(RInt(1), t), from), RMul(t, to))

\* One frame time passes for every animation of the manager.
AdvanceTime(values) ==
    [id \in DOMAIN values |->
        [values[id] EXCEPT !.since_toggle =
            IF @ + FrameDt > AnimationTime THEN AnimationTime ELSE @ + FrameDt]]

\* animate_value_with_time(id, target, 0.2): the manager after the call and
\* the value returned.
AnimateValueWithTime(values, id, target) ==
    IF id \notin DOMAIN values
    THEN [values |-> [k \in DOMAIN values \cup {id} |->
                        IF k = id
                        THEN [from_value |-> target, to_value |-> target,
                              since_toggle |-> AnimationTime]
                        ELSE values[k]],
          value |-> target]
    ELSE LET anim == values[id]
             time_since_toggle == Rat(2 * anim.since_toggle + FrameDt, 2)
             current_value == RemapClamp(time_since_toggle, RInt(0), RInt(AnimationTime),
                                         anim.from_value, anim.to_value)
         IN  [values |-> IF anim.to_value # target
                         THEN [values EXCEPT ![id] =
                                  [from_value |-> current_value, to_value |-> target,
                                   since_toggle |-> 0]]
                         ELSE values,
              value |-> current_value]

(***************************************************************************)
(* The animated "Portfolio" label, app.rs 307-333.                         *)
(***************************************************************************)
\* animations.entry(id).or_insert({ animate_value_with_time(id, 0.0, 0.2);
\* (In, 0.0) }): the argument of or_insert is evaluated in every frame,
\* whether or not the entry exists.
EntryOrInsert(anims, values) ==
    [animations |-> IF PortfolioId \in DOMAIN anims THEN anims
                    ELSE [k \in DOMAIN anims \cup {PortfolioId} |->
                            IF k = PortfolioId
                            THEN [direction |-> "In", progress |-> RInt(0)]
                            ELSE anims[k]],
     values |-> AnimateValueWithTime(values, PortfolioId, RInt(0)).values]

\* Mutant: the hovered branch animates toward 2 instead of 1.
HoverStepOvershoot(anims, values, hovered) ==
    LET entry == anims[PortfolioId]
        going == IF hovered
                 THEN entry.direction = "Out" \/ RLt(entry.progress, RInt(1))
                 ELSE entry.direction = "In" \/ RLt(RInt(0), entry.progress)
        target == IF hovered THEN RInt(2) ELSE RInt(0)
        r == AnimateValueWithTime(values, PortfolioId, target)
    IN  IF going
        THEN [animations |-> [anims EXCEPT ![PortfolioId] =
                                [direction |-> IF hovered THEN "In" ELSE "Out",
                                 progress |-> r.value]],
              values |-> r.values]
        ELSE [animations |-> anims, values |-> values]

\* Mutant: an entry that has come to rest at (Out, 0) is removed.
HoverStepDropsFinished(anims, values, hovered) ==
    LET entry == anims[PortfolioId]
        going == IF hovered
                 THEN entry.direction = "Out" \/ RLt(entry.progress, RInt(1))
                 ELSE entry.direction = "In" \/ RLt(RInt(0), entry.progress)
        target == IF hovered THEN RInt(1) ELSE RInt(0)
        r == AnimateValueWithTime(values, PortfolioId, target)
    IN  IF going
        THEN [animations |-> [anims EXCEPT ![PortfolioId] =
                                [direction |-> IF hovered THEN "In" ELSE "Out",
                                 progress |-> r.value]],
              values |-> r.values]
        ELSE [animations |-> [k \in DOMAIN anims \ {PortfolioId} |-> anims[k]],
              values |-> values]

\* Mutant: the branches look at the progress only, not at the direction.
HoverStepProgressOnly(anims, values, hovered) ==
    LET entry == anims[PortfolioId]
        going == IF hovered
                 THEN RLt(entry.progress, RInt(1))
                 ELSE RLt(RInt(0), entry.progress)
        target == IF hovered THEN RInt(1) ELSE RInt(0)
        r == AnimateValueWithTime(values, PortfolioId, target)
    IN  IF going
        THEN [animations |-> [anims EXCEPT ![PortfolioId] =
                                [direction |-> IF hovered THEN "In" ELSE "Out",
                                 progress |-> r.value]],
              values |-> r.values]
        ELSE [animations |-> anims, values |-> values]

\* The hovered and the not hovered branch, app.rs 319-333.
HoverStep(anims, values, hovered) ==
    LET entry == anims[PortfolioId]
        going == IF hovered
                 THEN entry.direction = "Out" \/ RLt(entry.progress, RInt(1))
                 ELSE entry.direction = "In" \/ RLt(RInt(0), entry.progress)
        target == IF hovered THEN RInt(1) ELSE RInt(0)
        r == AnimateValueWithTime(values, PortfolioId, target)
    IN  IF going
        THEN [animations |-> [anims EXCEPT ![PortfolioId] =
                                [direction |-> IF hovered THEN "In" ELSE "Out",
                                 progress |-> r.value]],
              values |-> r.values]
        ELSE [animations |-> anims, values |-> values]

\* Mutant: the entry is looked up and inserted only once the label is hovered.
PortfolioLabelOnHover(anims, values, hovered) ==
    IF ~hovered /\ PortfolioId \notin DOMAIN anims
    THEN [animations |-> anims, values |-> values]
    ELSE LET e == EntryOrInsert(anims, values)
         IN  HoverStep(e.animations, e.values, hovered)

PortfolioLabel(anims, values, hovered) ==
    LET e == EntryOrInsert(anims, values)
    IN  HoverStep(e.animations, e.values, hovered)

(***************************************************************************)
(* Thumbnails, data.rs 105-130, and the highlights loop, app.rs 450-460.   *)
(***************************************************************************)
Pending == [kind |-> "Pending", texture |-> None]
Failed == [kind |-> "Error", texture |-> None]
NoPoll == [kind |-> "NoPoll", texture |-> None]
Ready(h) == [kind |-> "Ready", texture |-> h]
PollResults == {Pending, Failed} \cup {Ready(h) : h \in Handles}

\* Mutant: the host is asked even when the thumbnail is cached.
GetSetThumbnailAlwaysPoll(project, url, poll) ==
    LET thumbnail_full_path == url \o project.thumbnail_path
    IN  IF project.thumbnail # None
        THEN [project |-> project, result |-> project.thumbnail,
              requests |-> <<thumbnail_full_path>>, answer |-> poll]
        ELSE IF poll.kind = "Ready"
        THEN [project |-> [project EXCEPT !.thumbnail = poll.texture],
              result |-> poll.texture,
              requests |-> <<thumbnail_full_path>>, answer |-> poll]
        ELSE [project |-> project, result |-> None,
              requests |-> <<thumbnail_full_path>>, answer |-> poll]

\* Mutant: a ready texture is returned but not stored.
GetSetThumbnailNoStore(project, url, poll) ==
    IF project.thumbnail # None
    THEN [project |-> project, result |-> project.thumbnail,
          requests |-> <<>>, answer |-> NoPoll]
    ELSE [project |-> project,
          result |-> IF poll.kind = "Ready" THEN poll.texture ELSE None,
          requests |-> <<url \o project.thumbnail_path>>, answer |-> poll]

\* Mutant: the cache is not consulted before asking: the host is asked in
\* every call and a ready texture replaces whatever is cached.
GetSetThumbnailRefresh(project, url, poll) ==
    LET thumbnail_full_path == url \o project.thumbnail_path
    IN  IF poll.kind = "Ready"
        THEN [project |-> [project EXCEPT !.thumbnail = poll.texture],
              result |-> poll.texture,
              requests |-> <<thumbnail_full_path>>, answer |-> poll]
        ELSE [project |-> project, result |-> project.thumbnail,
              requests |-> <<thumbnail_full_path>>, answer |-> poll]

\* Mutant: after a failed poll the project gives up: the path is cleared and
\* no later call asks the host.
GetSetThumbnailGiveUp(project, url, poll) ==
    IF project.thumbnail # None
    THEN [project |-> project, result |-> project.thumbnail,
          requests |-> <<>>, answer |-> NoPoll]
    ELSE IF project.thumbnail_path = ""
    THEN [project |-> project, result |-> None, requests |-> <<>>, answer |-> NoPoll]
    ELSE IF poll.kind = "Ready"
    THEN [project |-> [project EXCEPT !.thumbnail = poll.texture],
          result |-> poll.texture,
          requests |-> <<url \o project.thumbnail_path>>, answer |-> poll]
    ELSE IF poll.kind = "Error"
    THEN [project |-> [project EXCEPT !.thumbnail_path = ""], result |-> None,
          requests |-> <<url \o project.thumbnail_path>>, answer |-> poll]
    ELSE [project |-> project, result |-> None,
          requests |-> <<url \o project.thumbnail_path>>, answer |-> poll]

\* get_set_thumbnail(root_url, ctx), where poll is the answer of
\* ctx.try_load_texture should the call ask: the project after the call, the
\* value returned, the URIs asked for and the answer received.
GetSetThumbnail(project, url, poll) ==
    IF project.thumbnail # None
    THEN [project |-> project, result |-> project.thumbnail,
          requests |-> <<>>, answer |-> NoPoll]
    ELSE LET thumbnail_full_path == url \o project.thumbnail_path
         IN  IF poll.kind = "Ready"
             THEN [project |-> [project EXCEPT !.thumbnail = poll.texture],
                   result |-> poll.texture,
                   requests |-> <<thumbnail_full_path>>, answer |-> poll]
             ELSE [project |-> project, result |-> None,
                   requests |-> <<thumbnail_full_path>>, answer |-> poll]

\* add_highlighted_project(ui, ctx, root_url, project) resolves the thumbnail
\* of the project it renders.
AddHighlightedProject(project, url, poll) == GetSetThumbnail(project, url, poll)

RECURSIVE RequestsUpTo(_, _, _, _)
RequestsUpTo(projects, url, polls, n) ==
    IF n = 0 THEN <<>>
    ELSE RequestsUpTo(projects, url, polls, n - 1)
         \o AddHighlightedProject(projects[n], url, polls[n]).requests

\* The answers the host may give in a frame.  For a project whose thumbnail
\* is cached the answer is never read, so one answer stands for all of them:
\* a ready texture other than the cached one.
PollChoices(project) ==
    IF project.thumbnail # None
    THEN {Ready(CHOOSE h \in Handles : h # project.thumbnail)}
    ELSE PollResults

(***************************************************************************)
(* Scene rectangle normalization, app.rs 485-492.                          *)
(***************************************************************************)
Min(a, b) == IF a < b THEN a ELSE b

\* Mutant: the minimum corner is clamped and the maximum corner stays.
NormalizeSceneRectMinOnly(rect) ==
    IF rect.min_x < 0 \/ rect.min_y < 0
    THEN [rect EXCEPT !.min_x = IF @ < 0 THEN 0 ELSE @,
                      !.min_y = IF @ < 0 THEN 0 ELSE @]
    ELSE rect

\* Mutant: the rectangle is translated by shift instead of -shift.
NormalizeSceneRectWrongSign(rect) ==
    IF rect.min_x < 0 \/ rect.min_y < 0
    THEN LET shift_x == Min(rect.min_x, 0)
             shift_y == Min(rect.min_y, 0)
         IN  [min_x |-> rect.min_x + shift_x, min_y |-> rect.min_y + shift_y,
              max_x |-> rect.max_x + shift_x, max_y |-> rect.max_y + shift_y]
    ELSE rect

NormalizeSceneRect(rect) ==
    IF rect.min_x < 0 \/ rect.min_y < 0
    THEN LET shift_x == Min(rect.min_x, 0)
             shift_y == Min(rect.min_y, 0)
         IN  [min_x |-> rect.min_x - shift_x, min_y |-> rect.min_y - shift_y,
              max_x |-> rect.max_x - shift_x, max_y |-> rect.max_y - shift_y]
    ELSE rect

(***************************************************************************)
(* ButtonWithUnderline, elements.rs 14-296: the builder's fields that      *)
(* decide the frame and the underline, and what atom_ui paints.  An        *)
(* Option is "None" or the value, an Option<bool> "None", "Some(true)" or  *)
(* "Some(false)", and a Vec2 is a record of two integers.                  *)
(***************************************************************************)
Vec2(x, y) == [x |-> x, y |-> y]
Splat(v) == Vec2(v, v)
SomeBool(v) == IF v THEN "Some(true)" ELSE "Some(false)"

ButtonNew ==
    [fill |-> None, stroke |-> None, frame |-> None, frame_when_inactive |-> TRUE,
     selected |-> FALSE, underline_color |-> None, inset |-> Vec2(0, 0),
     hover_inset |-> Splat(-2)]

fill(b, color) == [b EXCEPT !.fill = color]
stroke(b, st) == [b EXCEPT !.stroke = st, !.frame = SomeBool(TRUE)]
frame(b, v) == [b EXCEPT !.frame = SomeBool(v)]
frame_when_inactive(b, v) == [b EXCEPT !.frame_when_inactive = v]
selected(b, v) == [b EXCEPT !.selected = v]
underline_color(b, color) == [b EXCEPT !.underline_color = color]
inset(b, v) ==
    [b EXCEPT !.inset = v,
              !.hover_inset = IF b.hover_inset = Splat(-2) THEN v ELSE b.hover_inset]
hover_inset(b, v) == [b EXCEPT !.hover_inset = v]

selectable(sel) == frame(frame_when_inactive(selected(ButtonNew, sel), sel), TRUE)

\* Mutant: the underline is painted with the rest, when the rectangle is visible.
AtomUiUnderlineWhenVisible(b, hovered, down, has_focus, visible, button_frame) ==
    LET focus == hovered \/ down \/ has_focus
    IN  [frame |-> <<>>,
         underline |-> IF visible
                       THEN <<[inset |-> IF focus THEN b.hover_inset ELSE b.inset,
                               margins |-> "zero", color |-> "text_color"]>>
                       ELSE <<>>]

\* atom_ui and paint_underline: the frame and the line segments painted for
\* button b with the given response, visibility and ui.visuals().button_frame.
AtomUi(b, hovered, down, has_focus, visible, button_frame) ==
    LET has_frame_margin == IF b.frame = None THEN button_frame ELSE b.frame = SomeBool(TRUE)
        focus == hovered \/ down \/ has_focus
        visible_frame == IF b.frame_when_inactive THEN has_frame_margin
                         ELSE has_frame_margin /\ focus
        inner_margin == IF ~visible THEN "zero"
                        ELSE IF visible_frame THEN "padding+expansion-stroke"
                        ELSE IF has_frame_margin THEN "padding"
                        ELSE "zero"
    IN  [frame |-> IF visible /\ visible_frame
                   THEN <<[fill |-> IF b.fill = None THEN "weak_bg_fill" ELSE b.fill,
                           stroke |-> IF b.stroke = None THEN "bg_stroke" ELSE b.stroke]>>
                   ELSE <<>>,
         underline |-> <<[inset |-> IF focus THEN b.hover_inset ELSE b.inset,
                          margins |-> inner_margin,
                          color |-> IF b.underline_color = None THEN "text_color"
                                    ELSE b.underline_color]>>]

(***************************************************************************)
(* paint_angular_gradient, elements.rs 427-487, for one color channel of   *)
(* opaque colors.  An angle is given by its sine and cosine, so that the   *)
(* projections are rationals.                                              *)
(***************************************************************************)
\* f32::EPSILON, 2^-23.
Epsilon == Rat(1, 8388608)

RMax(a, b) == IF RLt(a, b) THEN b ELSE a
RMin(a, b) == IF RLt(b, a) THEN b ELSE a
RAbs(a) == IF a.n < 0 THEN Rat(-a.n, a.d) ELSE a

\* Rgba::from(Color32), ecolor's linear_f32_from_gamma_u8, at the two channel
\* values the model paints with.
LinearFromGammaU8(v) == CASE v = 0 -> RInt(0) [] v = 255 -> RInt(1)

\* GammaTable[v] / 65536 is the least linear value that ecolor's
\* gamma_u8_from_linear_f32 rounds to v or more (3294.6 x on the linear
\* segment, 269.025 x^(1/2.4) - 14.025 above it), rounded up to 1/65536.
GammaTable ==
    <<10, 30, 50, 70, 90, 110, 130, 150, 170, 189, 209, 230,
      253, 276, 301, 327, 354, 382, 412, 443, 475, 509, 544, 580,
      618, 657, 698, 740, 783, 828, 875, 923, 972, 1023, 1075, 1129,
      1185, 1242, 1300, 1360, 1422, 1486, 1551, 1617, 1685, 1755, 1827, 1900,
      1975, 2052, 2130, 2210, 2292, 2376, 2461, 2548, 2637, 2727, 2820, 2914,
      3010, 3108, 3208, 3309, 3412, 3518, 3625, 3734, 3844, 3957, 4072, 4188,
      4307, 4427, 4550, 4674, 4800, 4929, 5059, 5191, 5325, 5461, 5600, 5740,
      5882, 6026, 6173, 6321, 6471, 6624, 6779, 6935, 7094, 7255, 7418, 7583,
      7750, 7920, 8091, 8265, 8440, 8618, 8798, 8981, 9165, 9352, 9541, 9732,
      9925, 10121, 10318, 10518, 10721, 10925, 11132, 11341, 11552, 11766, 11981, 12200,
      12420, 12643, 12868, 13095, 13325, 13557, 13791, 14028, 14267, 14508, 14752, 14998,
      15247, 15498, 15751, 16007, 16265, 16525, 16788, 17054, 17322, 17592, 17864, 18140,
      18417, 18697, 18980, 19265, 19552, 19842, 20135, 20430, 20727, 21027, 21330, 21635,
      21942, 22252, 22565, 22880, 23198, 23518, 23841, 24166, 24494, 24825, 25158, 25494,
      25832, 26173, 26517, 26863, 27212, 27563, 27917, 28274, 28633, 28995, 29360, 29727,
      30097, 30470, 30845, 31223, 31604, 31987, 32373, 32762, 33154, 33548, 33945, 34345,
      34747, 35152, 35560, 35971, 36384, 36800, 37219, 37641, 38065, 38493, 38923, 39355,
      39791, 40229, 40671, 41115, 41562, 42011, 42464, 42919, 43377, 43838, 44302, 44769,
      45238, 45711, 46186, 46664, 47145, 47629, 48116, 48605, 49098, 49593, 50092, 50593,
      51097, 51604, 52114, 52627, 53143, 53662, 54184, 54709, 55236, 55767, 56300, 56837,
      57377, 57919, 58465, 59013, 59564, 60119, 60676, 61237, 61800, 62367, 62936, 63509,
      64084, 64663, 65245>>

\* Color32::from(Rgba) for a channel: the linear value x to a gamma byte.
GammaU8FromLinear(x) ==
    Cardinality({v \in 1..255 : x.n * 65536 >= GammaTable[v] * x.d})

\* emath::lerp(from..=to, t).
Lerp(from, to, t) == RAdd(RMul(RSub(RInt(1), t), from), RMul(t, to))

\* rect.left_top(), right_top(), right_bottom(), left_bottom().
Corners(rect) ==
    <<Vec2(rect.min_x, rect.min_y), Vec2(rect.max_x, rect.min_y),
      Vec2(rect.max_x, rect.max_y), Vec2(rect.min_x, rect.max_y)>>

\* (corner - rect.center()).dot(rot) with rot = (sin, -cos).
Projection(corner, rect, angle) ==
    RAdd(RMul(Rat(2 * corner.x - rect.min_x - rect.max_x, 2), angle.sin),
         RMul(Rat(2 * corner.y - rect.min_y - rect.max_y, 2), RSub(RInt(0), angle.cos)))

\* Mutant: a rectangle without extent along the axis is painted from t = 0.
GradientTDegenerateStart(projection, min_proj, proj_range) ==
    IF RLt(RAbs(proj_range), Epsilon) THEN RInt(0)
    ELSE RDiv(RSub(projection, min_proj), proj_range)

\* The interpolation factor t of a vertex, elements.rs 463-467.
GradientT(projection, min_proj, proj_range) ==
    IF RLt(RAbs(proj_range), Epsilon) THEN Rat(1, 2)
    ELSE RDiv(RSub(projection, min_proj), proj_range)

\* The four vertices of the mesh, in the order of the corners.
PaintAngularGradient(rect, start_color, end_color, angle, intensity) ==
    LET corners == Corners(rect)
        projections == [i \in 1..4 |-> Projection(corners[i], rect, angle)]
        min_proj == RMin(RMin(projections[1], projections[2]),
                         RMin(projections[3], projections[4]))
        max_proj == RMax(RMax(projections[1], projections[2]),
                         RMax(projections[3], projections[4]))
        proj_range == RSub(max_proj, min_proj)
        safe_x == RMax(intensity.x, Epsilon)
        safe_y == RMax(intensity.y, Epsilon)
        start_blend_point == RSub(Rat(1, 2), RDiv(Rat(1, 2), safe_x))
        end_blend_point == RAdd(Rat(1, 2), RDiv(Rat(1, 2), safe_y))
        start_rgba == LinearFromGammaU8(start_color)
        end_rgba == LinearFromGammaU8(end_color)
    IN  [i \in 1..4 |->
            LET t == GradientT(projections[i], min_proj, proj_range)
                blend_factor == RemapClamp(t, start_blend_point, end_blend_point,
                                           RInt(0), RInt(1))
            IN  [pos |-> corners[i],
                 color |-> GammaU8FromLinear(Lerp(start_rgba, end_rgba, blend_factor))]]

(***************************************************************************)
(* The state after construction, app.rs 24-34 and data.rs 44-50.           *)
(***************************************************************************)
ThumbnailPath(i) == "assets/thumb" \o ToString(i) \o ".png"

InitialData(n) == [i \in 1..n |-> [thumbnail_path |-> ThumbnailPath(i), thumbnail |-> None]]

(***************************************************************************)
(* Data::default, data.rs 44-50.  The configuration is a table that may    *)
(* have the skills key and that lists the projects, each with the keys it  *)
(* gives; a project's required keys are those of ProjectHighlight without  *)
(* the skipped thumbnail, of which the model keeps three.                  *)
(***************************************************************************)
RequiredKeys == {"slug", "title", "thumbnail_path"}

RawProject(i, keys) == [keys |-> keys, thumbnail_path |-> ThumbnailPath(i)]

\* The configuration of a build with n projects, all keys given.
EmbeddedData(n) ==
    [has_skills |-> TRUE, projects |-> [i \in 1..n |-> RawProject(i, RequiredKeys)]]

\* toml::from_str::<Data>: an error when a required key is missing anywhere,
\* else every project with its thumbnail at the skipped field's default.
TomlFromStr(raw) ==
    IF raw.has_skills /\ \A i \in DOMAIN raw.projects : RequiredKeys \subseteq raw.projects[i].keys
    THEN [ok |-> TRUE,
          value |-> [i \in DOMAIN raw.projects |->
                        [thumbnail_path |-> raw.projects[i].thumbnail_path,
                         thumbnail |-> None]]]
    ELSE [ok |-> FALSE, value |-> <<>>]

\* Mutant: the projects that parse are kept and the others are dropped.
DataDefaultSkipMalformed(raw) ==
    LET good == {i \in DOMAIN raw.projects : RequiredKeys \subseteq raw.projects[i].keys}
    IN  [panic |-> FALSE,
         data |-> [i \in 1..Cardinality(good) |->
                      [thumbnail_path |-> ThumbnailPath(i), thumbnail |-> None]]]

\* .expect("Failed to parse data.toml") panics on the error.
DataDefault(raw) ==
    LET parsed == TomlFromStr(raw)
    IN  IF parsed.ok THEN [panic |-> FALSE, data |-> parsed.value]
        ELSE [panic |-> TRUE, data |-> <<>>]

DefaultSceneRect == [min_x |-> 0, min_y |-> 0, max_x |-> 1920, max_y |-> 1080]

\* The host and the records of the last frame before the first frame.
InitHost ==
    /\ viewport = 0
    /\ zoom_factor \in InitZooms
    /\ theme \in {"Light", "Dark"}
    /\ anim_values = [k \in {} |-> 0]
    /\ screen_width = RInt(0)
    /\ screen_size = "Unset"
    /\ panel_location = "Unset"
    /\ zoom_repaint = FALSE
    /\ poll_result = [i \in DOMAIN data |-> NoPoll]
    /\ thumb_result = [i \in DOMAIN data |-> None]
    /\ load_requests = <<>>
    /\ same_width_frames = 0
    /\ hover_time = -1
    /\ pointer_at = "away"
    /\ highlights = <<>>
    /\ frame_result = "none"
    /\ socials_call = <<>>
    /\ opened = <<>>
    /\ button = ButtonNew
    /\ calls = <<>>
    /\ painted = <<>>
    /\ gradient_call = <<>>
    /\ mesh = <<>>
    /\ frames = 0

DefaultImagePath == "/test_img.png"

\* TemplateApp::default() but for the scene rectangle.
InitApp ==
    /\ image_path = DefaultImagePath
    /\ storage = <<>>
    /\ restored = FALSE
    /\ animations = [k \in {} |-> 0]
    /\ root_url \in RootUrls
    /\ \E n \in 1..MaxProjects : raw_data = EmbeddedData(n)
    /\ data = DataDefault(raw_data).data
    /\ startup = "running"

Init ==
    /\ InitApp
    /\ scene_rect = DefaultSceneRect
    /\ scene_rect_snapshot = DefaultSceneRect
    /\ InitHost

(***************************************************************************)
(* The highlights loop, app.rs 452-460.  A usize is kept as the signed     *)
(* representative of its residue modulo 2^w, so usize::MAX is -1 at every  *)
(* width w; the model's lengths are far below 2^(w-1).                     *)
(***************************************************************************)
\* a - b on usize: with overflow checks (the debug profile) an underflow
\* panics, without them (the release profile) it wraps.
UsizeSub(a, b, overflow_checks) ==
    IF a >= b THEN [panic |-> FALSE, value |-> a - b]
    ELSE IF overflow_checks THEN [panic |-> TRUE, value |-> 0]
    ELSE [panic |-> FALSE, value |-> a - b]

\* a < b on usize, on the representatives.
UsizeLt(a, b) == IF (a < 0) = (b < 0) THEN a < b ELSE b < 0

Added(kind, idx) == [kind |-> kind, idx |-> idx]

\* What the iterations idx, .., n - 1 of the loop add to the ui.
RECURSIVE HighlightsFrom(_, _, _)
HighlightsFrom(idx, n, max_len) ==
    IF idx >= n THEN <<>>
    ELSE <<Added("project", idx), Added("space", idx)>>
         \o (IF UsizeLt(idx, max_len)
             THEN <<Added("separator", idx), Added("space", idx)>>
             ELSE <<>>)
         \o HighlightsFrom(idx + 1, n, max_len)

\* let max_len = len() - 1, then the loop over the n projects.
HighlightsLoop(n, overflow_checks) ==
    LET max_len == UsizeSub(n, 1, overflow_checks)
    IN  IF max_len.panic THEN [panic |-> TRUE, max_len |-> 0, added |-> <<>>]
        ELSE [panic |-> FALSE, max_len |-> max_len.value,
              added |-> HighlightsFrom(0, n, max_len.value)]

(***************************************************************************)
(* One frame of TemplateApp::update, app.rs 252-495.  The inputs of the    *)
(* frame: the pointer is at `pointer`, the window is w wide, and the host  *)
(* answers polls[i] when asked for the thumbnail of project i.  A value    *)
(* the frame computes once is bound once, as the one element of a set.     *)
(* The build decides what an underflow in the highlights loop does; a      *)
(* frame that panics there has done what precedes the loop and is the      *)
(* last.                                                                   *)
(***************************************************************************)
Update ==
    /\ startup = "running"
    /\ frames < MaxFrames
    /\ \E pointer \in Pointers :
       \E label \in {PortfolioLabel(animations, AdvanceTime(anim_values),
                                    pointer = "portfolio")} :
       \E w \in Widths :
       \E sw \in {ScreenWidth(w, zoom_factor)} :
       \E size \in {Classify(sw)} :
       \E z \in {ZoomStep(sw, size, zoom_factor)} :
       \E loop \in {HighlightsLoop(Len(data), checks) : checks \in BOOLEAN} :
       \E polls \in [DOMAIN data -> PollResults] :
          /\ \A i \in DOMAIN data : polls[i] \in PollChoices(data[i])
          /\ \E shown \in {[i \in DOMAIN data |->
                              AddHighlightedProject(data[i], root_url, polls[i])]} :
                /\ viewport' = w
                /\ screen_width' = sw
                /\ screen_size' = size
                /\ zoom_factor' = z.zoom
                /\ zoom_repaint' = z.repaint
                /\ panel_location' = PanelLocation(size)
                /\ animations' = label.animations
                /\ anim_values' = label.values
                /\ theme' = ToggleTheme(theme, pointer = "theme_click")
                /\ scene_rect_snapshot' = scene_rect
                /\ IF loop.panic
                   THEN /\ startup' = "aborted"
                        /\ frame_result' = "panic"
                        /\ load_requests' = <<>>
                        /\ UNCHANGED <<data, thumb_result, poll_result, scene_rect>>
                   ELSE /\ startup' = startup
                        /\ frame_result' = "ok"
                        /\ data' = [i \in DOMAIN data |-> shown[i].project]
                        /\ thumb_result' = [i \in DOMAIN data |-> shown[i].result]
                        /\ poll_result' = [i \in DOMAIN data |-> shown[i].answer]
                        /\ load_requests' = RequestsUpTo(data, root_url, polls, Len(data))
                        /\ scene_rect' = NormalizeSceneRect(scene_rect)
                /\ highlights' = loop.added
                /\ same_width_frames' =
                      IF w # viewport THEN 1
                      ELSE IF same_width_frames < 2 THEN same_width_frames + 1
                      ELSE 2
                /\ hover_time' =
                      IF pointer # "portfolio" THEN -1
                      ELSE IF hover_time < 0 THEN 0
                      ELSE IF hover_time + FrameDt > AnimationTime THEN AnimationTime
                      ELSE hover_time + FrameDt
                /\ pointer_at' = pointer
                /\ frames' = frames + 1
                /\ UNCHANGED <<root_url, raw_data, image_path, storage, restored,
                               link_vars, button_vars, gradient_vars>>

Next == Update

Spec == Init /\ [][Next]_vars

(***************************************************************************)
(* The scene rectangle normalization alone, app.rs 485-492, applied frame  *)
(* after frame to a rectangle anywhere around the origin.  update() never  *)
(* moves the rectangle itself, so Spec only ever normalizes the default.   *)
(***************************************************************************)
InitSceneRects ==
    {[min_x |-> x, min_y |-> y, max_x |-> x + w, max_y |-> y + h] :
        x \in -MaxShift..MaxShift, y \in -MaxShift..MaxShift,
        w \in SceneSizes, h \in SceneSizes}

InitScene ==
    /\ InitApp
    /\ scene_rect \in InitSceneRects
    /\ scene_rect_snapshot = scene_rect
    /\ InitHost

NormalizeStep ==
    /\ frames < MaxFrames
    /\ scene_rect_snapshot' = scene_rect
    /\ scene_rect' = NormalizeSceneRect(scene_rect)
    /\ frames' = frames + 1
    /\ UNCHANGED <<animations, root_url, data, raw_data, startup, image_path, storage,
                   restored, link_vars, button_vars, gradient_vars, host_vars, frame_vars>>

NextScene == NormalizeStep

SpecScene == InitScene /\ [][NextScene]_vars

(***************************************************************************)
(* Properties.                                                             *)
(***************************************************************************)
FrameStep == frames' = frames + 1

\* The URI of project i's thumbnail and how often the last frame asked for it.
ThumbnailUri(i) == root_url \o data[i].thumbnail_path
TimesRequested(i) ==
    Cardinality({k \in DOMAIN load_requests : load_requests[k] = ThumbnailUri(i)})

\* C1: the size class of a frame is decided by the frame's effective width
\* alone: Small below 768, Medium from 768 and below 1028, Large from 1028,
\* so 767 is Small, 768 and 1027 are Medium and 1028 is Large.
C1_SizeClassByWidth ==
    frames > 0 =>
        /\ screen_size \in {"Small", "Medium", "Large"}
        /\ screen_size = "Small" <=> RLt(screen_width, RInt(768))
        /\ screen_size = "Medium" <=>
              (RLe(RInt(768), screen_width) /\ RLt(screen_width, RInt(1028)))
        /\ screen_size = "Large" <=> RLe(RInt(1028), screen_width)
        /\ screen_width = RInt(767) => screen_size = "Small"
        /\ screen_width = RInt(768) => screen_size = "Medium"
        /\ screen_width = RInt(1027) => screen_size = "Medium"
        /\ screen_width = RInt(1028) => screen_size = "Large"

C1_Witness == frames > 0 /\ screen_width = RInt(768) /\ screen_size = "Medium"

\* C2: the zoom step of a frame: Small with a zoom factor other than
\* width/768 sets the zoom factor to width/768 and requests a repaint (width
\* 500 gives 500/768); Medium and Large leave the zoom factor at exactly 1;
\* Small with the zoom factor already width/768 changes nothing and requests
\* no repaint.
C2_ZoomStep ==
    [][FrameStep =>
        LET target == RDiv(screen_width', RInt(768))
        IN  /\ (screen_size' = "Small" /\ zoom_factor # target)
                => (zoom_factor' = target /\ zoom_repaint')
            /\ screen_size' \in {"Medium", "Large"} => zoom_factor' = RInt(1)
            /\ (screen_size' = "Small" /\ zoom_factor = target)
                => (zoom_factor' = zoom_factor /\ ~zoom_repaint')
            /\ screen_width' = RInt(500) => zoom_factor' = Rat(500, 768)]_vars

C2_Witness ==
    /\ frames > 0
    /\ screen_width = RInt(500)
    /\ zoom_repaint
    /\ zoom_factor = Rat(500, 768)

C4_PanelPlacement ==
    frames > 0 =>
        /\ panel_location = "Bottom" <=> screen_size = "Small"
        /\ screen_size \in {"Medium", "Large"} => panel_location = "Top"

C4_Witness == frames > 0 /\ screen_size = "Medium" /\ panel_location = "Top"

\* C5: a call of get_set_thumbnail on a project whose thumbnail is cached
\* returns the cached handle and asks the host for nothing.
C5_CachedNoLoad ==
    [][FrameStep =>
        \A i \in DOMAIN data :
            data[i].thumbnail # None =>
                /\ thumb_result'[i] = data[i].thumbnail
                /\ poll_result'[i] = NoPoll
                /\ TimesRequested(i)' = 0]_vars

C5_Witness ==
    \E i \in DOMAIN data :
        /\ frames >= 2
        /\ data[i].thumbnail # None
        /\ thumb_result[i] = data[i].thumbnail
        /\ poll_result[i] = NoPoll
        /\ root_url # ""

\* C6: a call of get_set_thumbnail on a project whose cache is empty asks the
\* host once, for root_url + thumbnail_path; a Pending answer returns nothing
\* and leaves the cache empty, a Ready(h) answer stores h and returns h; a
\* call on a cached project returns the cached handle without asking.
C6_PollOnce ==
    [][FrameStep =>
        \A i \in DOMAIN data :
            /\ data[i].thumbnail = None =>
                /\ TimesRequested(i)' = 1
                /\ poll_result'[i] # NoPoll
                /\ poll_result'[i] = Pending
                    => (thumb_result'[i] = None /\ data'[i].thumbnail = None)
                /\ poll_result'[i].kind = "Ready"
                    => /\ data'[i].thumbnail = poll_result'[i].texture
                       /\ thumb_result'[i] = poll_result'[i].texture
            /\ data[i].thumbnail # None =>
                /\ thumb_result'[i] = data[i].thumbnail
                /\ data'[i].thumbnail = data[i].thumbnail
                /\ TimesRequested(i)' = 0]_vars

\* The second call was answered Ready, so the first was not.
C6_Witness ==
    \E i \in DOMAIN data :
        /\ frames = 2
        /\ poll_result[i].kind = "Ready"
        /\ thumb_result[i] = poll_result[i].texture
        /\ data[i].thumbnail = poll_result[i].texture

\* C7 as stated: after a failed poll for a project, the next frame neither
\* asks the host again for it nor returns or caches a handle for it.
C7_FailureIsPermanent ==
    [][FrameStep =>
        \A i \in DOMAIN data :
            poll_result[i] = Failed =>
                /\ poll_result'[i] = NoPoll
                /\ thumb_result'[i] = None
                /\ data'[i].thumbnail = None]_vars

\* C7 amended: a failed poll returns nothing and leaves the cache empty for
\* that call only; the failure is not remembered, so the next call asks the
\* host again and, when the answer is Ready(h), caches and returns h.
C7_FailureIsRetried ==
    [][FrameStep =>
        \A i \in DOMAIN data :
            /\ poll_result'[i] = Failed
                => (thumb_result'[i] = None /\ data'[i].thumbnail = None)
            /\ poll_result[i] = Failed =>
                /\ poll_result'[i] # NoPoll
                /\ TimesRequested(i)' = 1
                /\ poll_result'[i].kind = "Ready"
                    => /\ data'[i].thumbnail = poll_result'[i].texture
                       /\ thumb_result'[i] = poll_result'[i].texture]_vars

C7_Witness ==
    \E i \in DOMAIN data :
        /\ frames \in 1..(MaxFrames - 1)
        /\ poll_result[i] = Failed
        /\ thumb_result[i] = None
        /\ data[i].thumbnail = None

\* C8: the thumbnail cache of a project is write-once: a handle, once stored,
\* is the handle in every later state.
C8_WriteOnce ==
    [][\A i \in DOMAIN data :
          data[i].thumbnail # None => data'[i].thumbnail = data[i].thumbnail]_vars

C8_Witness ==
    \E i \in DOMAIN data :
        /\ frames = 3
        /\ data[i].thumbnail # None
        /\ poll_result[i] = NoPoll

\* C9: the progress stored in the animation map is in [0, 1].
C9_ProgressInRange ==
    \A id \in DOMAIN animations :
        /\ RLe(RInt(0), animations[id].progress)
        /\ RLe(animations[id].progress, RInt(1))

C9_Witness ==
    /\ PortfolioId \in DOMAIN animations
    /\ RLt(RInt(0), animations[PortfolioId].progress)
    /\ RLt(animations[PortfolioId].progress, RInt(1))
    /\ animations[PortfolioId].direction = "Out"

\* C10: when the pointer has been over the label for consecutive frames that
\* cover the animation time, the stored entry is (In, 1).
C10_HoverReachesOne ==
    hover_time >= AnimationTime =>
        /\ PortfolioId \in DOMAIN animations
        /\ animations[PortfolioId] = [direction |-> "In", progress |-> RInt(1)]

(***************************************************************************)
(* Startup alone: TemplateApp::new (app.rs 38-53) builds the default       *)
(* application, whose Data comes from the configuration in the binary,     *)
(* which here may be any table of up to MaxEntries projects.               *)
(***************************************************************************)
RawConfigs ==
    {[has_skills |-> sk, projects |-> [i \in 1..n |-> RawProject(i, keys[i])]] :
        sk \in BOOLEAN, n \in 0..MaxEntries, keys \in [1..MaxEntries -> SUBSET RequiredKeys]}

InitStartup ==
    /\ raw_data \in RawConfigs
    /\ startup = "constructing"
    /\ data = <<>>
    /\ animations = [k \in {} |-> 0]
    /\ root_url = ""
    /\ image_path = DefaultImagePath
    /\ storage = <<>>
    /\ restored = FALSE
    /\ scene_rect = DefaultSceneRect
    /\ scene_rect_snapshot = DefaultSceneRect
    /\ InitHost

New ==
    /\ startup = "constructing"
    /\ \E made \in {DataDefault(raw_data)} :
          /\ startup' = IF made.panic THEN "aborted" ELSE "running"
          /\ data' = made.data
          /\ poll_result' = [i \in DOMAIN made.data |-> NoPoll]
          /\ thumb_result' = [i \in DOMAIN made.data |-> None]
    /\ \E url \in RootUrls : root_url' = url
    /\ UNCHANGED <<raw_data, animations, scene_rect, scene_rect_snapshot, image_path,
                   storage, restored, link_vars, button_vars, gradient_vars, host_vars,
                   screen_width, screen_size, panel_location, zoom_repaint, load_requests,
                   same_width_frames, hover_time, pointer_at, highlights, frame_result,
                   frames>>

NextStartup == New

SpecStartup == InitStartup /\ [][NextStartup]_vars

(***************************************************************************)
(* Construction and then frames: the frames of every Data that loads, the  *)
(* one without projects among them.                                        *)
(***************************************************************************)
InitLoaded ==
    /\ InitStartup
    /\ zoom_factor = RInt(1)
    /\ theme = "Light"

NextLoaded == New \/ Update

SpecLoaded == InitLoaded /\ [][NextLoaded]_vars

(***************************************************************************)
(* Sessions: the frames of Spec, the framework's call of save() (app.rs    *)
(* 247-249) and the next startup through TemplateApp::new (app.rs 38-53).  *)
(* serde writes the fields of TemplateApp that are not marked skip and, on *)
(* reading, takes every field the snapshot lacks from TemplateApp::default *)
(* (app.rs 9-22).                                                          *)
(***************************************************************************)
AppFields == {"image_path", "scene_rect", "root_url", "animations", "data"}

\* The fields without #[serde(skip)]: none.
PersistedFields == AppFields \ {"image_path", "scene_rect", "root_url", "animations", "data"}

TemplateApp ==
    [image_path |-> image_path, scene_rect |-> scene_rect, root_url |-> root_url,
     animations |-> animations, data |-> data]

\* Mutant: the animation map is written to the snapshot as well.
SerializeWithAnimations(app) == [f \in PersistedFields \cup {"animations"} |-> app[f]]

Serialize(app) == [f \in PersistedFields |-> app[f]]

Deserialize(snapshot, default) ==
    [f \in AppFields |-> IF f \in DOMAIN snapshot THEN snapshot[f] ELSE default[f]]

\* TemplateApp::default() when the document's base URI is url.
TemplateAppDefault(url) ==
    [image_path |-> DefaultImagePath, scene_rect |-> DefaultSceneRect, root_url |-> url,
     animations |-> [k \in {} |-> 0], data |-> DataDefault(raw_data).data]

Save ==
    /\ startup = "running"
    /\ storage' = <<Serialize(TemplateApp)>>
    /\ UNCHANGED <<animations, root_url, data, raw_data, startup, scene_rect, image_path,
                   restored, scene_rect_snapshot, link_vars, button_vars, gradient_vars,
                   host_vars, frame_vars,
                   frames>>

\* The page is left and opened again: the host starts afresh and new() loads
\* the snapshot if there is one.
Restart ==
    /\ startup = "running"
    /\ \E url \in RootUrls :
       \E app \in {IF storage # <<>> THEN Deserialize(storage[1], TemplateAppDefault(url))
                    ELSE TemplateAppDefault(url)} :
          /\ image_path' = app.image_path
          /\ scene_rect' = app.scene_rect
          /\ root_url' = app.root_url
          /\ animations' = app.animations
          /\ data' = app.data
    /\ restored' = (storage # <<>>)
    /\ scene_rect_snapshot' = DefaultSceneRect
    /\ viewport' = 0
    /\ zoom_factor' \in InitZooms
    /\ theme' \in {"Light", "Dark"}
    /\ anim_values' = [k \in {} |-> 0]
    /\ screen_width' = RInt(0)
    /\ screen_size' = "Unset"
    /\ panel_location' = "Unset"
    /\ zoom_repaint' = FALSE
    /\ poll_result' = [i \in DOMAIN data |-> NoPoll]
    /\ thumb_result' = [i \in DOMAIN data |-> None]
    /\ load_requests' = <<>>
    /\ same_width_frames' = 0
    /\ hover_time' = -1
    /\ pointer_at' = "away"
    /\ highlights' = <<>>
    /\ frame_result' = "none"
    /\ socials_call' = <<>>
    /\ opened' = <<>>
    /\ frames' = 0
    /\ UNCHANGED <<raw_data, startup, storage, button_vars, gradient_vars>>

NextSession == Update \/ Save \/ Restart

SpecSession == Init /\ [][NextSession]_vars

(***************************************************************************)
(* socials() alone, elements.rs 374-417: a link is shown and may be        *)
(* clicked.  A link is the text of a URL in three parts; the frames of     *)
(* Spec show two fixed links and never click them.                         *)
(***************************************************************************)
Links ==
    [scheme : {"", "https", "mailto"}, host : {"", "github.com"}, path : {"", "/ZeroUni"}]

\* Url::new(link), the browser's URL constructor without a base: the text
\* needs a scheme, and a host as well when the scheme is https.
UrlNew(link) ==
    IF link.scheme = "" THEN "Err"
    ELSE IF link.scheme = "https" /\ link.host = "" THEN "Err"
    ELSE "Ok"

\* web_sys::window(): the application runs on the page's main thread, where
\* there is a window.
Window == "Some"

\* Mutant: a click opens the link without validation.
SocialsClickUnchecked(link, clicked, log) ==
    IF clicked /\ Window = "Some"
    THEN Append(log, [url |-> link, target |-> "_blank"])
    ELSE log

\* The host's log of window.open requests after the click handling of
\* socials(), elements.rs 404-413.
SocialsClick(link, clicked, log) ==
    IF clicked
    THEN IF UrlNew(link) = "Ok"
         THEN IF Window = "Some"
              THEN Append(log, [url |-> link, target |-> "_blank"])
              ELSE log
         ELSE log
    ELSE log

Socials ==
    /\ Len(opened) < MaxOpened
    /\ \E link \in Links, clicked \in BOOLEAN :
          /\ socials_call' = <<[link |-> link, clicked |-> clicked]>>
          /\ opened' = SocialsClick(link, clicked, opened)
    /\ UNCHANGED <<animations, root_url, data, raw_data, startup, scene_rect, image_path,
                   storage, restored, scene_rect_snapshot, button_vars, gradient_vars, host_vars,
                   frame_vars, frames>>

NextSocials == Socials

SpecSocials == Init /\ [][NextSocials]_vars

(***************************************************************************)
(* A ButtonWithUnderline alone: a caller starts from new() or selectable() *)
(* (elements.rs 30-66), makes up to MaxCalls builder calls (elements.rs    *)
(* 91-212) and shows the button (elements.rs 215-296), which consumes it.  *)
(***************************************************************************)
InsetArgs == {Splat(4), Splat(8)}
HoverInsetArgs == {Splat(2)}

InitButton ==
    /\ Init
    /\ zoom_factor = RInt(1)
    /\ theme = "Light"
    /\ root_url = ""

\* Builder call `name` turns the button into b.
Built(name, b) ==
    /\ painted = <<>>
    /\ Len(calls) < MaxCalls
    /\ button' = b
    /\ calls' = Append(calls, name)
    /\ UNCHANGED painted
    /\ UNCHANGED <<animations, root_url, data, raw_data, startup, scene_rect, image_path,
                   storage, restored, scene_rect_snapshot, link_vars, gradient_vars, host_vars,
                   frame_vars, frames>>

CallSelectable ==
    /\ calls = <<>>
    /\ \E sel \in BOOLEAN : Built("selectable(" \o ToString(sel) \o ")", selectable(sel))

CallFill == Built("fill", fill(button, "red"))

CallStroke == Built("stroke", stroke(button, "thick"))

CallFrame == \E v \in BOOLEAN : Built("frame(" \o ToString(v) \o ")", frame(button, v))

CallFrameWhenInactive == Built("frame_when_inactive", frame_when_inactive(button, FALSE))

CallSelected == Built("selected", selected(button, TRUE))

CallUnderlineColor == Built("underline_color", underline_color(button, "blue"))

CallInset == \E v \in InsetArgs : Built("inset", inset(button, v))

CallHoverInset == \E v \in HoverInsetArgs : Built("hover_inset", hover_inset(button, v))

Show ==
    /\ painted = <<>>
    /\ \E hovered \in BOOLEAN, down \in BOOLEAN, has_focus \in BOOLEAN,
          visible \in BOOLEAN, button_frame \in BOOLEAN :
          painted' = <<[hovered |-> hovered, down |-> down, has_focus |-> has_focus,
                        visible |-> visible,
                        ui |-> AtomUi(button, hovered, down, has_focus, visible,
                                      button_frame)]>>
    /\ UNCHANGED <<button, calls>>
    /\ UNCHANGED <<animations, root_url, data, raw_data, startup, scene_rect, image_path,
                   storage, restored, scene_rect_snapshot, link_vars, gradient_vars, host_vars,
                   frame_vars, frames>>

NextButton ==
    \/ CallSelectable \/ CallFill \/ CallStroke \/ CallFrame \/ CallFrameWhenInactive
    \/ CallSelected \/ CallUnderlineColor \/ CallInset \/ CallHoverInset \/ Show

SpecButton == InitButton /\ [][NextButton]_vars

(***************************************************************************)
(* paint_angular_gradient alone: it is called with a rectangle that may    *)
(* have no width or no height, at an angle that is upright, level or       *)
(* oblique, with two colors and two intensities.                           *)
(***************************************************************************)
GradientRects ==
    {[min_x |-> x, min_y |-> 0, max_x |-> x + w, max_y |-> h] :
        x \in {0, 1}, w \in {0, 3}, h \in {0, 4}}
Angles ==
    {[sin |-> RInt(0), cos |-> RInt(1)], [sin |-> RInt(1), cos |-> RInt(0)],
     [sin |-> Rat(3, 5), cos |-> Rat(4, 5)], [sin |-> Rat(-4, 5), cos |-> Rat(3, 5)]}
Intensities == {Rat(2, 5), RInt(1), RInt(2)}
Channels == {0, 255}

InitGradient ==
    /\ Init
    /\ zoom_factor = RInt(1)
    /\ theme = "Light"
    /\ root_url = ""

\* One call: the mesh depends on the arguments of the call alone.
Paint ==
    /\ gradient_call = <<>>
    /\ \E rect \in GradientRects, start_color \in Channels, end_color \in Channels,
          angle \in Angles, ix \in Intensities, iy \in Intensities :
          /\ gradient_call' = <<[rect |-> rect, start_color |-> start_color,
                                 end_color |-> end_color, angle |-> angle,
                                 intensity |-> [x |-> ix, y |-> iy]]>>
          /\ mesh' = PaintAngularGradient(rect, start_color, end_color, angle,
                                          [x |-> ix, y |-> iy])
    /\ UNCHANGED <<animations, root_url, data, raw_data, startup, scene_rect, image_path,
                   storage, restored, scene_rect_snapshot, link_vars, button_vars,
                   host_vars, frame_vars, frames>>

NextGradient == Paint

SpecGradient == InitGradient /\ [][NextGradient]_vars

\* C11: normalizing the scene rectangle is idempotent: a rectangle whose
\* minimum corner has x >= 0 and y >= 0 is left as it is, and a second
\* application leaves the result of the first as it is, for every rectangle.
C11_NormalizeIdempotent ==
    [][FrameStep =>
          /\ (scene_rect.min_x >= 0 /\ scene_rect.min_y >= 0) => scene_rect' = scene_rect
          /\ frames >= 1 => scene_rect' = scene_rect]_vars

\* Two applications, the first of which moved the rectangle's left edge to 0.
C11_Witness ==
    /\ frames = 2
    /\ scene_rect_snapshot = scene_rect
    /\ scene_rect.min_x = 0 /\ scene_rect.min_y = 1 /\ scene_rect.max_x = 3

\* C12: a click on the theme toggle flips the theme, Light to Dark and Dark
\* to Light, so that a second toggle would restore it, and the click changes
\* nothing else: the zoom factor, the animation map, Data and the scene
\* rectangle come out of the frame as they do without the click.
C12_ThemeToggleFlips ==
    [][(FrameStep /\ pointer_at' = "theme_click") =>
          /\ theme = "Light" => theme' = "Dark"
          /\ theme = "Dark" => theme' = "Light"
          /\ theme = (IF theme' = "Light" THEN "Dark" ELSE "Light")
          /\ zoom_factor' = ZoomStep(screen_width', screen_size', zoom_factor).zoom
          /\ animations' = PortfolioLabel(animations, AdvanceTime(anim_values), FALSE).animations
          /\ \A i \in DOMAIN data :
                \/ data'[i] = data[i]
                \/ /\ data[i].thumbnail = None
                   /\ data'[i] = [data[i] EXCEPT !.thumbnail = poll_result'[i].texture]
          /\ scene_rect' = scene_rect]_vars

\* The toggle was clicked in the second frame and the theme is now dark.
C12_Witness == frames = 2 /\ pointer_at = "theme_click" /\ theme = "Dark"

\* C13: when the configuration in the binary is malformed (the skills key
\* or a required key of some project is missing) startup aborts: the
\* application never runs and no Data exists, not even the projects that
\* are well formed.
C13_MalformedAborts ==
    (\/ ~raw_data.has_skills
     \/ \E i \in DOMAIN raw_data.projects : raw_data.projects[i].keys # RequiredKeys)
    => (startup # "running" /\ data = <<>>)

\* Startup aborted on a configuration whose first project is well formed
\* and whose second lacks a key.
C13_Witness ==
    /\ startup = "aborted"
    /\ raw_data.has_skills
    /\ Len(raw_data.projects) = 2
    /\ raw_data.projects[1].keys = RequiredKeys
    /\ raw_data.projects[2].keys = {"slug", "title"}

\* C14: when a session starts from the snapshot an earlier save() stored,
\* the image path, scene rectangle, base URL, animation map and Data are the
\* fresh defaults, with no thumbnail cached, whatever they were at save().
C14_SnapshotRestoresNothing ==
    (restored /\ frames = 0) =>
        /\ image_path = DefaultImagePath
        /\ scene_rect = DefaultSceneRect
        /\ root_url \in RootUrls
        /\ animations = [k \in {} |-> 0]
        /\ data = InitialData(Len(raw_data.projects))
        /\ \A i \in DOMAIN data : data[i].thumbnail = None

\* A session that started from a snapshot, before its first frame.
C14_Witness == restored /\ frames = 0 /\ storage # <<>> /\ startup = "running"

\* C15: socials() asks the host to open a browsing context exactly when the
\* link is clicked and its URL is well formed (it has a scheme, and a host
\* if the scheme is https), and then asks once, for that very URL with
\* target _blank; a click on a malformed URL and a frame without a click
\* open nothing.
C15_OpensOnlyWellFormed ==
    [][\A call \in {socials_call'[1]} :
          IF /\ call.clicked
             /\ call.link.scheme # ""
             /\ (call.link.scheme = "https" => call.link.host # "")
          THEN opened' = opened \o <<[url |-> call.link, target |-> "_blank"]>>
          ELSE opened' = opened]_vars

\* One link was opened before, and the last click, on a URL without a
\* scheme, opened nothing.
C15_Witness ==
    /\ Len(opened) = 1
    /\ socials_call # <<>>
    /\ socials_call[1].clicked
    /\ socials_call[1].link = [scheme |-> "", host |-> "github.com", path |-> "/ZeroUni"]

\* C16: selectable(selected, atoms) builds the button that
\* new(atoms).selected(selected).frame_when_inactive(!selected).frame(true)
\* builds, for both values of selected.
C16_SelectableAsDocumented ==
    \A sel \in BOOLEAN :
        calls = <<"selectable(" \o ToString(sel) \o ")">> =>
            button = frame(frame_when_inactive(selected(ButtonNew, sel), ~sel), TRUE)

\* C17: after fill() the frame setting is on, as after stroke(), whatever
\* was called before, unless frame(false) is called after the fill().
C17_FillTurnsFrameOn ==
    \A k \in DOMAIN calls :
        (calls[k] = "fill" /\ \A j \in (k + 1)..Len(calls) : calls[j] # "frame(FALSE)")
        => button.frame = SomeBool(TRUE)

\* C18: after builder calls with at least one inset() and no hover_inset(),
\* the hover inset is the inset set last.
C18_HoverInsetFollowsInset ==
    ((\E k \in DOMAIN calls : calls[k] = "inset")
     /\ (\A k \in DOMAIN calls : calls[k] # "hover_inset"))
    => button.hover_inset = button.inset

\* C19: whenever the button is shown one underline is painted, also when
\* its rectangle is not visible, and it is painted with the hover inset if
\* the button is hovered, pressed or focused and with the inset if not.
C19_UnderlineByFocus ==
    painted # <<>> =>
        \A p \in {painted[1]} :
            /\ Len(p.ui.underline) = 1
            /\ (p.hovered \/ p.down \/ p.has_focus)
                  => p.ui.underline[1].inset = button.hover_inset
            /\ ~(p.hovered \/ p.down \/ p.has_focus)
                  => p.ui.underline[1].inset = button.inset

\* A button with different insets was shown focused by the keyboard alone
\* while its rectangle was not visible.
C19_Witness ==
    /\ painted # <<>>
    /\ button.inset = Splat(8) /\ button.hover_inset = Splat(2)
    /\ painted[1].has_focus /\ ~painted[1].hovered /\ ~painted[1].down
    /\ ~painted[1].visible
    /\ painted[1].ui.underline[1].inset = Splat(2)

\* C20: in a frame where the label is hovered its entry (as found, or as
\* just inserted) is updated, to direction In and an animation toward 1,
\* exactly when its direction is Out or its progress is below 1; in a frame
\* where it is not hovered the entry is updated, to direction Out and an
\* animation toward 0, exactly when its direction is In or its progress is
\* above 0; otherwise the entry is unchanged.  So after every frame the
\* direction is In if and only if the label was hovered in that frame.
C20_HoverTransition ==
    [][FrameStep =>
          \A pre \in {IF PortfolioId \in DOMAIN animations THEN animations[PortfolioId]
                       ELSE [direction |-> "In", progress |-> RInt(0)]} :
          \A post \in {animations'[PortfolioId]} :
             /\ pointer_at' = "portfolio" =>
                   IF pre.direction = "Out" \/ RLt(pre.progress, RInt(1))
                   THEN /\ post.direction = "In"
                        /\ anim_values'[PortfolioId].to_value = RInt(1)
                        /\ RLe(RInt(0), post.progress) /\ RLe(post.progress, RInt(1))
                   ELSE post = pre
             /\ pointer_at' # "portfolio" =>
                   IF pre.direction = "In" \/ RLt(RInt(0), pre.progress)
                   THEN /\ post.direction = "Out"
                        /\ anim_values'[PortfolioId].to_value = RInt(0)
                        /\ RLe(RInt(0), post.progress) /\ RLe(post.progress, RInt(1))
                   ELSE post = pre
             /\ post.direction = "In" <=> pointer_at' = "portfolio"]_vars

\* The label was hovered, with progress under way, and is no longer: its
\* entry has turned to Out.
C20_Witness ==
    /\ frames = 3
    /\ pointer_at = "away"
    /\ hover_time = -1
    /\ animations[PortfolioId].direction = "Out"
    /\ RLt(RInt(0), animations[PortfolioId].progress)

\* C21: after the normalization step of a frame the minimum corner of the
\* scene rectangle has x >= 0 and y >= 0, a negative coordinate of it has
\* become exactly 0, a non-negative one has not moved, and the width and
\* the height are those before the step.
C21_NormalizeClampsAndKeepsSize ==
    [][FrameStep =>
          /\ scene_rect'.min_x >= 0 /\ scene_rect'.min_y >= 0
          /\ scene_rect'.min_x = (IF scene_rect.min_x < 0 THEN 0 ELSE scene_rect.min_x)
          /\ scene_rect'.min_y = (IF scene_rect.min_y < 0 THEN 0 ELSE scene_rect.min_y)
          /\ scene_rect'.max_x - scene_rect'.min_x = scene_rect.max_x - scene_rect.min_x
          /\ scene_rect'.max_y - scene_rect'.min_y = scene_rect.max_y - scene_rect.min_y]_vars

\* The first step moved a rectangle that began left of the origin with a
\* positive minimum y: x went to 0, y stayed, and the width is still 3.
C21_Witness ==
    /\ frames = 1
    /\ scene_rect_snapshot.min_x = -2 /\ scene_rect_snapshot.min_y = 1
    /\ scene_rect_snapshot.max_x = 1
    /\ scene_rect.min_x = 0 /\ scene_rect.min_y = 1 /\ scene_rect.max_x = 3

\* C22: the entry of the "Portfolio" label is created on the first hover,
\* so the map has no entry before it: a frame that begins without the
\* entry and in which the label is not hovered ends without it.
C22_CreatedOnFirstHover ==
    [][(FrameStep /\ PortfolioId \notin DOMAIN animations /\ pointer_at' # "portfolio")
          => PortfolioId \notin DOMAIN animations']_vars

\* C22, amended: the entry is created by the first frame, hovered or not:
\* the map has no entry before the first frame and has it after every frame.
C22_CreatedInFirstFrame ==
    /\ frames = 0 => PortfolioId \notin DOMAIN animations
    /\ frames > 0 => PortfolioId \in DOMAIN animations

\* One frame has run, the label was not hovered in it, and its entry exists.
C22_Witness ==
    /\ frames = 1
    /\ pointer_at # "portfolio"
    /\ hover_time = -1
    /\ PortfolioId \in DOMAIN animations

\* C23: the keys of the animation map are among the keys of the animated
\* widgets, of which there is one, "portfolio_button", before and after
\* every frame, and no frame removes an entry, whether it toggles the theme
\* or comes at a new width.
C23_AnimationsBoundedMonotone ==
    [][FrameStep =>
          /\ DOMAIN animations \subseteq {"portfolio_button"}
          /\ DOMAIN animations' \subseteq {"portfolio_button"}
          /\ DOMAIN animations \subseteq DOMAIN animations']_vars

\* The third frame came at a new width and toggled the theme, and the
\* entry is still there.
C23_Witness ==
    /\ frames = 3
    /\ pointer_at = "theme_click"
    /\ same_width_frames = 1
    /\ DOMAIN animations = {"portfolio_button"}

\* The extent of the last painted rectangle along the gradient axis,
\* |width sin| + |height cos|, is below epsilon.
GradientDegenerate ==
    /\ gradient_call # <<>>
    /\ \A c \in {gradient_call[1]} :
          RLt(RAdd(RAbs(RMul(RInt(c.rect.max_x - c.rect.min_x), c.angle.sin)),
                   RAbs(RMul(RInt(c.rect.max_y - c.rect.min_y), c.angle.cos))),
              Epsilon)

ProjectsAdded == SelectSeq(highlights, LAMBDA a : a.kind = "project")
SeparatorsAfter(idx) ==
    Len(SelectSeq(highlights, LAMBDA a : a.kind = "separator" /\ a.idx = idx))

\* C25: no frame fails, whatever Data was loaded: for every number n >= 0
\* of projects, n = 0 included, the frame gets past the separator bound
\* n - 1, adds each project once in list order, and adds a separator after
\* project i exactly when i < n - 1.
C25_FrameNeverFails ==
    /\ frame_result # "panic"
    /\ frame_result = "ok" =>
          /\ ProjectsAdded = [i \in 1..Len(data) |-> [kind |-> "project", idx |-> i - 1]]
          /\ \A i \in 0..(Len(data) - 1) :
                SeparatorsAfter(i) = (IF i < Len(data) - 1 THEN 1 ELSE 0)

====
